---- MODULE Spec2Model ----
(***************************************************************************)
(* The parallel, row-partitioned NDVI engine of whitebox_tools             *)
(* (tools/image_analysis/ndvi.rs, NormalizedDifferenceVegetationIndex::run) *)
(* as a state machine: the run's main thread (load, validate, spawn,       *)
(* collect, clip, metadata, write), the worker threads it spawns and the   *)
(* mpsc channel between them.                                              *)
(***************************************************************************)
EXTENDS Integers, Sequences, FiniteSets, TLC

\* Bounds of the model: the largest grid and the largest worker pool explored.
MaxRows == 3
MaxCols == 2
MaxProcs == 2

(***************************************************************************)
(* f64 values.  A finite value is the exact fraction <<n, d>> in lowest    *)
(* terms with d > 0; a zero denominator encodes the IEEE specials that a   *)
(* division by zero produces.  Rounding is not modelled.                   *)
(***************************************************************************)
RECURSIVE GCD(_, _)
GCD(a, b) == IF b = 0 THEN a ELSE GCD(b, a % b)

Abs(x) == IF x < 0 THEN -x ELSE x

\* The fraction n/d in lowest terms with a positive denominator.
Fraction[p \in Int \X Int] ==
    LET g == GCD(Abs(p[1]), Abs(p[2]))
        s == IF p[2] < 0 THEN -1 ELSE 1
    IN  <<(s * p[1]) \div g, (s * p[2]) \div g>>

F64(n, d) == Fraction[<<n, d>>]

PosInf == <<1, 0>>
NegInf == <<-1, 0>>
NaN == <<0, 0>>
Zero == F64(0, 1)

IsFinite(x) == x[2] # 0

F64Add(x, y) == F64(x[1] * y[2] + y[1] * x[2], x[2] * y[2])

F64Sub(x, y) == F64(x[1] * y[2] - y[1] * x[2], x[2] * y[2])

\* x / y for finite x and y: a zero divisor gives +inf, -inf or NaN.
F64Div(x, y) ==
    IF y[1] = 0
    THEN IF x[1] > 0 THEN PosInf ELSE IF x[1] < 0 THEN NegInf ELSE NaN
    ELSE F64(x[1] * y[2], x[2] * y[1])

\* x < y; every comparison with NaN is false.
F64Less(x, y) ==
    /\ x # NaN
    /\ y # NaN
    /\ x # y
    /\ IF ~IsFinite(x) THEN x = NegInf
       ELSE IF ~IsFinite(y) THEN y = PosInf
       ELSE x[1] * y[2] < y[1] * x[2]

(***************************************************************************)
(* The raster files a run may be given.                                    *)
(***************************************************************************)
NoRaster == [rows |-> -1]

NirNodata == F64(-32768, 1)
RedNodata == F64(-9999, 1)

\* Pixel values of the two bands: the band's own nodata sentinel and
\* reflectances chosen so that z_nir + z_red = 0, z_nir + z_red + 0.16 = 0
\* and ordinary quotients all occur.
NirValues == <<NirNodata, F64(-16, 100), Zero, F64(8, 100)>>
RedValues == <<RedNodata, Zero, F64(8, 100)>>

\* The grid whose cells run through vals in row-major order from offset seed.
GridFile(nrows, ncolumns, nodata, vals, seed) ==
    [rows |-> nrows, columns |-> ncolumns, nodata |-> nodata,
     data |-> [r \in 0..(nrows - 1) |->
                 [c \in 0..(ncolumns - 1) |->
                     vals[((seed + r * ncolumns + c) % Len(vals)) + 1]]]]

\* The offsets of the nir files: with the two of them the cells of a grid
\* of six cells run through every pair of a nir value and a red value.
NirSeeds == {0, 2}

NirFiles ==
    {GridFile(r, c, NirNodata, NirValues, s) :
        r \in 0..MaxRows, c \in 1..MaxCols, s \in NirSeeds}

RedFiles ==
    {GridFile(r, c, RedNodata, RedValues, 0) :
        r \in 0..MaxRows, c \in 1..MaxCols}

\* --clip arguments: a negative amount, the default 0.0 and a positive percentage.
ClipArgs == {-1, 0, 50}

\* Faulty variant of the --clip branch: the guard assigns, so that a negative
\* amount becomes 0.0.
ParseClipClamp(arg) ==
    LET parsed == arg
    IN  IF parsed < 0 THEN 0 ELSE parsed

\* The --clip branch of the argument loop: the parsed value, then the guard
\* for negative values, whose body is the comparison clip_amount == 0.0, a
\* statement whose value is discarded.
ParseClip(arg) ==
    LET parsed == arg
        discarded == IF parsed < 0 THEN parsed = 0 ELSE FALSE
    IN  parsed

\* correction_factor: 0.0, or 0.16 with --osavi.
OsaviFactor == F64(16, 100)
CorrectionFactors == {Zero, OsaviFactor}

VARIABLES
    pc,                 \* where the run's main thread is
    err,                \* the error the run returned, "none" while it has none
    nirFile, redFile,   \* the two input files
    clip_arg,           \* the value given with --clip
    verbose,            \* the verbose parameter of run
    clip_amount, correction_factor, num_procs,
    nir, red,           \* the loaded input rasters (NoRaster before the load)
    output,             \* the output raster (NoRaster before it is created)
    tx, rx,             \* whether the run holds its Sender / its Receiver
    threads,            \* tid -> [state, next]: the spawned workers
    chan,               \* the channel's queue of (row, data) messages
    row,                \* the collection loop's index
    disk,               \* the output file as written (NoRaster while unwritten)
    sent,               \* history: the <<tid, row>> pairs sent so far
    nsent,              \* history: the number of sends so far
    writes,             \* history: row -> number of set_row_data calls on it
    reordered,          \* history: some message arrived out of row order
    clipped,            \* history: clip_min_and_max_by_percent was called
    old_progress,       \* the last percentage printed (1 before any)
    emitted             \* history: the percentages printed, in order

vars == <<pc, err, nirFile, redFile, clip_arg, verbose, clip_amount, correction_factor, num_procs,
          nir, red, output, tx, rx, threads, chan, row, disk, sent, nsent, writes,
          reordered, clipped, old_progress, emitted>>

inputs == <<nirFile, redFile, clip_arg, verbose, clip_amount, correction_factor, num_procs>>

Init ==
    /\ pc = "LoadNir"
    /\ err = "none"
    /\ nirFile \in NirFiles
    /\ redFile \in RedFiles
    /\ clip_arg \in ClipArgs
    /\ verbose \in BOOLEAN
    /\ clip_amount = ParseClip(clip_arg)
    /\ correction_factor \in CorrectionFactors
    /\ num_procs \in 1..MaxProcs
    /\ nir = NoRaster
    /\ red = NoRaster
    /\ output = NoRaster
    /\ tx = FALSE
    /\ rx = FALSE
    /\ threads = <<>>
    /\ chan = <<>>
    /\ row = 0
    /\ disk = NoRaster
    /\ sent = {}
    /\ nsent = 0
    /\ writes = <<>>
    /\ reordered = FALSE
    /\ clipped = FALSE
    /\ old_progress = 1
    /\ emitted = <<>>

(***************************************************************************)
(* The raster collaborator, as far as the run uses it.                     *)
(***************************************************************************)
\* Raster::new(file, "r"): the file's header and cells.
RasterNew(file) == file

\* raster[(row, col)]: the cell, and the nodata value outside the grid.
GetValue(raster, r, c) ==
    IF r \in 0..(raster.rows - 1) /\ c \in 0..(raster.columns - 1)
    THEN raster.data[r][c]
    ELSE raster.nodata

\* Raster::initialize_using_file: the template's shape and nodata value,
\* every cell nodata, no metadata yet.
InitializeUsingFile(template) ==
    [rows |-> template.rows, columns |-> template.columns,
     nodata |-> template.nodata,
     data |-> [r \in 0..(template.rows - 1) |->
                 [c \in 0..(template.columns - 1) |-> template.nodata]],
     metadata |-> <<>>]

\* Raster::set_row_data: the cells of one row replaced by the values given.
SetRowData(raster, r, values) ==
    IF r \in 0..(raster.rows - 1)
    THEN [raster EXCEPT !.data[r] =
             [c \in 0..(raster.columns - 1) |->
                 IF c \in DOMAIN values THEN values[c] ELSE @[c]]]
    ELSE raster

(***************************************************************************)
(* Names of the run's locals.                                              *)
(***************************************************************************)
rows == nir.rows
columns == nir.columns
nir_nodata == nir.nodata
red_nodata == red.nodata

Tids == DOMAIN threads

(***************************************************************************)
(* The worker closure.                                                     *)
(***************************************************************************)
\* Faulty variants of the filter: <= for =, which gives a row to several
\* workers, and a modulus one too large, which leaves rows to no worker.
RowFilterOverlap(r, procs, tid) == r % procs <= tid

RowFilterSkip(r, procs, tid) == r % (procs + 1) = tid

\* The filter of the row iterator: the rows of worker tid.
RowFilter(r, procs, tid) == r % procs = tid

\* Faulty variant of the cell: the guard tests the denominator of the
\* quotient, correction factor included.
EvalPixelGuardWithFactor(z_nir, z_red, nodata1, nodata2, factor) ==
    IF z_nir # nodata1 /\ z_red # nodata2
    THEN IF F64Add(F64Add(z_nir, z_red), factor) # Zero
         THEN F64Div(F64Sub(z_nir, z_red), F64Add(F64Add(z_nir, z_red), factor))
         ELSE nodata1
    ELSE nodata1

\* Faulty variant of the cell: || for && in the nodata test.
EvalPixelOr(z_nir, z_red, nodata1, nodata2, factor) ==
    IF z_nir # nodata1 \/ z_red # nodata2
    THEN IF F64Add(z_nir, z_red) # Zero
         THEN F64Div(F64Sub(z_nir, z_red), F64Add(F64Add(z_nir, z_red), factor))
         ELSE nodata1
    ELSE nodata1

\* One cell of the row buffer: it starts as nir_nodata and is overwritten
\* only when neither input is nodata.
EvalPixel(z_nir, z_red, nodata1, nodata2, factor) ==
    IF z_nir # nodata1 /\ z_red # nodata2
    THEN IF F64Add(z_nir, z_red) # Zero
         THEN F64Div(F64Sub(z_nir, z_red), F64Add(F64Add(z_nir, z_red), factor))
         ELSE nodata1
    ELSE nodata1

\* The row buffer data of one iteration.
EvalRow(r) ==
    [c \in 0..(columns - 1) |->
        EvalPixel(GetValue(nir, r, c), GetValue(red, r, c),
                  nir_nodata, red_nodata, correction_factor)]

\* The rows the iterator of worker tid has still to yield.
Remaining(tid) ==
    {r \in threads[tid].next..(rows - 1) : RowFilter(r, num_procs, tid)}

Min(S) == CHOOSE x \in S : \A y \in S : x <= y

\* Faulty variant of the iteration: the message goes to the front of the
\* queue, as on a channel that is not first-in first-out.
WorkerRowPushFront(tid) ==
    /\ tid \in Tids
    /\ threads[tid].state = "running"
    /\ Remaining(tid) # {}
    /\ LET r == Min(Remaining(tid)) IN
        IF rx
        THEN /\ chan' = <<<<r, EvalRow(r)>>>> \o chan
             /\ threads' = [threads EXCEPT ![tid].next = r + 1]
             /\ sent' = sent \cup {<<tid, r>>}
             /\ nsent' = nsent + 1
        ELSE /\ threads' = [threads EXCEPT ![tid].state = "panicked"]
             /\ UNCHANGED <<chan, sent, nsent>>
    /\ UNCHANGED <<pc, err, inputs, nir, red, output, tx, rx, row, disk, writes, reordered, clipped, old_progress, emitted>>

\* Faulty variant of the iteration: the worker also stores the row in the
\* output raster itself.
WorkerRowWritesOutput(tid) ==
    /\ tid \in Tids
    /\ threads[tid].state = "running"
    /\ Remaining(tid) # {}
    /\ rx
    /\ LET r == Min(Remaining(tid)) IN
        /\ chan' = Append(chan, <<r, EvalRow(r)>>)
        /\ threads' = [threads EXCEPT ![tid].next = r + 1]
        /\ sent' = sent \cup {<<tid, r>>}
        /\ nsent' = nsent + 1
        /\ output' = SetRowData(output, r, EvalRow(r))
    /\ UNCHANGED <<pc, err, inputs, nir, red, tx, rx, row, disk, writes, reordered, clipped, old_progress, emitted>>

\* Faulty variant of the iteration: the channel is a sync_channel of
\* capacity 1, whose send waits while the queue is full.
WorkerRowBounded(tid) ==
    /\ tid \in Tids
    /\ threads[tid].state = "running"
    /\ Remaining(tid) # {}
    /\ rx
    /\ Len(chan) < 1
    /\ LET r == Min(Remaining(tid)) IN
        /\ chan' = Append(chan, <<r, EvalRow(r)>>)
        /\ threads' = [threads EXCEPT ![tid].next = r + 1]
        /\ sent' = sent \cup {<<tid, r>>}
        /\ nsent' = nsent + 1
    /\ UNCHANGED <<pc, err, inputs, nir, red, output, tx, rx, row, disk, writes, reordered, clipped, old_progress, emitted>>

\* One iteration: the row is evaluated and sent; a send to a dropped
\* receiver fails and the unwrap panics.
WorkerRow(tid) ==
    /\ tid \in Tids
    /\ threads[tid].state = "running"
    /\ Remaining(tid) # {}
    /\ LET r == Min(Remaining(tid)) IN
        IF rx
        THEN /\ chan' = Append(chan, <<r, EvalRow(r)>>)
             /\ threads' = [threads EXCEPT ![tid].next = r + 1]
             /\ sent' = sent \cup {<<tid, r>>}
             /\ nsent' = nsent + 1
        ELSE /\ threads' = [threads EXCEPT ![tid].state = "panicked"]
             /\ UNCHANGED <<chan, sent, nsent>>
    /\ UNCHANGED <<pc, err, inputs, nir, red, output, tx, rx, row, disk, writes, reordered, clipped, old_progress, emitted>>

\* The iterator is exhausted: the closure returns and its Sender is dropped.
WorkerExit(tid) ==
    /\ tid \in Tids
    /\ threads[tid].state = "running"
    /\ Remaining(tid) = {}
    /\ threads' = [threads EXCEPT ![tid].state = "done"]
    /\ UNCHANGED <<pc, err, inputs, nir, red, output, tx, rx, chan, row, disk,
                   sent, nsent, writes, reordered, clipped, old_progress, emitted>>

\* The thread dies with rows still to send; its Sender is dropped.
WorkerPanic(tid) ==
    /\ tid \in Tids
    /\ threads[tid].state = "running"
    /\ Remaining(tid) # {}
    /\ threads' = [threads EXCEPT ![tid].state = "panicked"]
    /\ UNCHANGED <<pc, err, inputs, nir, red, output, tx, rx, chan, row, disk,
                   sent, nsent, writes, reordered, clipped, old_progress, emitted>>

(***************************************************************************)
(* The run's main thread.                                                  *)
(***************************************************************************)
\* Whether some Sender of the channel is still alive: the run's own tx or
\* the clone tx1 of a worker that has not returned.
SendersAlive == tx \/ \E t \in Tids : threads[t].state = "running"

\* Faulty variant of the nir load: the error is recorded and the run goes on
\* instead of returning it.
LoadNirGoesOn ==
    /\ pc = "LoadNir"
    /\ \/ /\ nir' = RasterNew(nirFile)
          /\ err' = err
       \/ /\ err' = "InputError"
          /\ nir' = RasterNew(nirFile)
    /\ pc' = "LoadRed"
    /\ UNCHANGED <<inputs, red, output, tx, rx, threads, chan, row, disk,
                   sent, nsent, writes, reordered, clipped, old_progress, emitted>>

\* let nir = Arc::new(Raster::new(&nir_file, "r")?)
LoadNir ==
    /\ pc = "LoadNir"
    /\ \/ /\ nir' = RasterNew(nirFile)
          /\ pc' = "LoadRed"
          /\ err' = err
       \/ /\ pc' = "Failed"
          /\ err' = "InputError"
          /\ nir' = nir
    /\ UNCHANGED <<inputs, red, output, tx, rx, threads, chan, row, disk,
                   sent, nsent, writes, reordered, clipped, old_progress, emitted>>

\* let red = Arc::new(Raster::new(&red_file, "r")?)
LoadRed ==
    /\ pc = "LoadRed"
    /\ \/ /\ red' = RasterNew(redFile)
          /\ pc' = "Validate"
          /\ err' = err
       \/ /\ pc' = "Failed"
          /\ err' = "InputError"
          /\ red' = red
    /\ UNCHANGED <<inputs, nir, output, tx, rx, threads, chan, row, disk,
                   sent, nsent, writes, reordered, clipped, old_progress, emitted>>

\* Faulty variant of the size test: the column counts are not compared.
SameSizeRowsOnly(a, b) == ~(a.rows # b.rows)

\* The test that the input files have the same size.
SameSize(a, b) == ~(a.rows # b.rows \/ a.columns # b.columns)

Validate ==
    /\ pc = "Validate"
    /\ IF SameSize(nir, red)
       THEN pc' = "InitOutput" /\ err' = err
       ELSE pc' = "Failed" /\ err' = "DimensionMismatch"
    /\ UNCHANGED <<inputs, nir, red, output, tx, rx, threads, chan, row, disk,
                   sent, nsent, writes, reordered, clipped, old_progress, emitted>>

\* The output raster and the channel are created.
InitOutput ==
    /\ pc = "InitOutput"
    /\ output' = InitializeUsingFile(nir)
    /\ tx' = TRUE
    /\ rx' = TRUE
    /\ writes' = [r \in 0..(rows - 1) |-> 0]
    /\ pc' = "Spawn"
    /\ UNCHANGED <<err, inputs, nir, red, threads, chan, row, disk, sent, nsent, reordered, clipped, old_progress, emitted>>

\* Faulty variant of the spawn loop: tid runs over 1..=num_procs.
SpawnFromOne ==
    /\ pc = "Spawn"
    /\ Cardinality(Tids) < num_procs
    /\ threads' = ((Cardinality(Tids) + 1) :> [state |-> "running", next |-> 0]) @@ threads
    /\ UNCHANGED <<pc, err, inputs, nir, red, output, tx, rx, chan, row, disk,
                   sent, nsent, writes, reordered, clipped, old_progress, emitted>>

\* One iteration of for tid in 0..num_procs: the next worker is spawned.
Spawn ==
    /\ pc = "Spawn"
    /\ Cardinality(Tids) < num_procs
    /\ threads' = (Cardinality(Tids) :> [state |-> "running", next |-> 0]) @@ threads
    /\ UNCHANGED <<pc, err, inputs, nir, red, output, tx, rx, chan, row, disk,
                   sent, nsent, writes, reordered, clipped, old_progress, emitted>>

\* Faulty variant of the end of the spawn loop: the run drops its own tx.
SpawnDoneDropTx ==
    /\ pc = "Spawn"
    /\ Cardinality(Tids) >= num_procs
    /\ pc' = "Collect"
    /\ tx' = FALSE
    /\ UNCHANGED <<err, inputs, nir, red, output, rx, threads, chan, row,
                   disk, sent, nsent, writes, reordered, clipped, old_progress, emitted>>

\* The spawn loop ends; the run keeps tx.
SpawnDone ==
    /\ pc = "Spawn"
    /\ Cardinality(Tids) >= num_procs
    /\ pc' = "Collect"
    /\ UNCHANGED <<err, inputs, nir, red, output, tx, rx, threads, chan, row,
                   disk, sent, nsent, writes, reordered, clipped, old_progress, emitted>>

\* The outcomes of `as usize` on NaN: 0 where the cast saturates, and an
\* out-of-range value (here the largest representable integer) where the
\* cast of a value that fits no usize is undefined.
NanAsUsize == {0, 2147483647}

\* x as usize, for x not negative: truncation toward zero.
AsUsize(x) ==
    IF x = NaN THEN NanAsUsize
    ELSE IF x = PosInf THEN {2147483647}
    ELSE {x[1] \div x[2]}

\* (100.0_f64 * row as f64 / (rows - 1) as f64) as usize
Progress(r) == AsUsize(F64Div(F64(100 * r, 1), F64(rows - 1, 1)))

\* The if verbose block of the loop: the percentage is printed when it is not
\* old_progress.
ReportProgress ==
    IF verbose
    THEN \E progress \in Progress(row) :
            IF progress # old_progress
            THEN /\ emitted' = Append(emitted, progress)
                 /\ old_progress' = progress
            ELSE UNCHANGED <<old_progress, emitted>>
    ELSE UNCHANGED <<old_progress, emitted>>

\* Faulty variant of the iteration: try_recv()? instead of recv().unwrap(),
\* so that an empty queue ends the run with an error.
CollectorTryRecv ==
    /\ pc = "Collect"
    /\ row < rows
    /\ IF chan # <<>>
       THEN /\ output' = SetRowData(output, Head(chan)[1], Head(chan)[2])
            /\ writes' = [writes EXCEPT ![Head(chan)[1]] = @ + 1]
            /\ chan' = Tail(chan)
            /\ row' = row + 1
            /\ reordered' = (reordered \/ Head(chan)[1] # row)
            /\ ReportProgress
            /\ UNCHANGED <<pc, tx, rx, err>>
       ELSE /\ pc' = "Failed"
            /\ err' = "RecvError"
            /\ tx' = FALSE
            /\ rx' = FALSE
            /\ UNCHANGED <<output, writes, chan, row, reordered,
                           old_progress, emitted>>
    /\ UNCHANGED <<inputs, nir, red, threads, disk, sent, nsent, clipped>>

\* Faulty variant of the iteration: the loop starts only when every worker
\* has returned, as after a join of the threads.
CollectorRecvAfterJoin ==
    /\ pc = "Collect"
    /\ row < rows
    /\ \A t \in Tids : threads[t].state # "running"
    /\ chan # <<>>
    /\ output' = SetRowData(output, Head(chan)[1], Head(chan)[2])
    /\ writes' = [writes EXCEPT ![Head(chan)[1]] = @ + 1]
    /\ chan' = Tail(chan)
    /\ row' = row + 1
    /\ reordered' = (reordered \/ Head(chan)[1] # row)
    /\ ReportProgress
    /\ UNCHANGED <<pc, tx, rx, err, inputs, nir, red, threads, disk, sent, nsent, clipped>>

\* Faulty variant of the iteration: the row is written at the loop index
\* instead of the index the message carries.
CollectorRecvAtLoopIndex ==
    /\ pc = "Collect"
    /\ row < rows
    /\ chan # <<>>
    /\ output' = SetRowData(output, row, Head(chan)[2])
    /\ writes' = [writes EXCEPT ![row] = @ + 1]
    /\ chan' = Tail(chan)
    /\ row' = row + 1
    /\ reordered' = (reordered \/ Head(chan)[1] # row)
    /\ ReportProgress
    /\ UNCHANGED <<pc, tx, rx, err, inputs, nir, red, threads, disk, sent, nsent, clipped>>

\* One iteration of for row in 0..rows: a blocking recv, then set_row_data
\* at the row index the message carries.  recv fails, and the unwrap panics,
\* only when the queue is empty and every Sender is gone.
CollectorRecv ==
    /\ pc = "Collect"
    /\ row < rows
    /\ IF chan # <<>>
       THEN /\ output' = SetRowData(output, Head(chan)[1], Head(chan)[2])
            /\ writes' = [writes EXCEPT ![Head(chan)[1]] = @ + 1]
            /\ chan' = Tail(chan)
            /\ row' = row + 1
            /\ reordered' = (reordered \/ Head(chan)[1] # row)
            /\ ReportProgress
            /\ UNCHANGED <<pc, tx, rx>>
       ELSE /\ ~SendersAlive
            /\ pc' = "Panicked"
            /\ tx' = FALSE
            /\ rx' = FALSE
            /\ UNCHANGED <<output, writes, chan, row, reordered,
                           old_progress, emitted>>
    /\ UNCHANGED <<err, inputs, nir, red, threads, disk, sent, nsent, clipped>>

\* Faulty variant of the loop bound: for row in 0..rows - 1.
CollectDoneEarly ==
    /\ pc = "Collect"
    /\ row >= rows - 1
    /\ pc' = "Clip"
    /\ UNCHANGED <<err, inputs, nir, red, output, tx, rx, threads, chan, row,
                   disk, sent, nsent, writes, reordered, clipped, old_progress, emitted>>

\* The collection loop ends after its rows-th iteration.
CollectDone ==
    /\ pc = "Collect"
    /\ row >= rows
    /\ pc' = "Clip"
    /\ UNCHANGED <<err, inputs, nir, red, output, tx, rx, threads, chan, row,
                   disk, sent, nsent, writes, reordered, clipped, old_progress, emitted>>

\* Raster::clip_min_and_max_by_percent: the percent/2 and 100 - percent/2
\* percentile values of the finite, non-nodata cells, and every non-nodata
\* cell clamped between them.
Cells(raster) == (0..(raster.rows - 1)) \X (0..(raster.columns - 1))

Valid(raster) ==
    {p \in Cells(raster) :
        raster.data[p[1]][p[2]] # raster.nodata /\ IsFinite(raster.data[p[1]][p[2]])}

ClipMinAndMaxByPercent(raster, percent) ==
    LET valid == Valid(raster)
        val(p) == raster.data[p[1]][p[2]]
        k == (Cardinality(valid) * percent) \div 200
        below(v) == Cardinality({q \in valid : F64Less(val(q), v)})
        above(v) == Cardinality({q \in valid : F64Less(v, val(q))})
        n == Cardinality(valid)
        lo == val(CHOOSE p \in valid : below(val(p)) <= k /\ k < n - above(val(p)))
        hi == val(CHOOSE p \in valid : above(val(p)) <= k /\ k < n - below(val(p)))
        clamp(x) == IF x = raster.nodata THEN x
                    ELSE IF F64Less(x, lo) THEN lo
                    ELSE IF F64Less(hi, x) THEN hi
                    ELSE x
    IN  IF valid = {} THEN raster
        ELSE [raster EXCEPT !.data =
                 [r \in 0..(raster.rows - 1) |->
                     [c \in 0..(raster.columns - 1) |-> clamp(raster.data[r][c])]]]

\* if clip_amount > 0.0 { output.clip_min_and_max_by_percent(clip_amount) }
Clip ==
    /\ pc = "Clip"
    /\ output' = IF clip_amount > 0
                 THEN ClipMinAndMaxByPercent(output, clip_amount)
                 ELSE output
    /\ clipped' = (clip_amount > 0)
    /\ pc' = "Metadata"
    /\ UNCHANGED <<err, inputs, nir, red, tx, rx, threads, chan, row, disk,
                   sent, nsent, writes, reordered, old_progress, emitted>>

\* The five add_metadata_entry calls.
Metadata ==
    /\ pc = "Metadata"
    /\ output' = [output EXCEPT !.metadata =
                     @ \o <<"tool", "nir_file", "red_file", "osavi_mode", "elapsed">>]
    /\ pc' = "Write"
    /\ UNCHANGED <<err, inputs, nir, red, tx, rx, threads, chan, row, disk,
                   sent, nsent, writes, reordered, clipped, old_progress, emitted>>

\* output.write(): the file is written and the run returns Ok, or the write
\* fails and the run returns its error.  Returning drops tx and rx.
Write ==
    /\ pc = "Write"
    /\ \/ /\ disk' = output
          /\ pc' = "Persisted"
          /\ err' = err
       \/ /\ pc' = "Failed"
          /\ err' = "OutputWriteError"
          /\ disk' = disk
    /\ tx' = FALSE
    /\ rx' = FALSE
    /\ UNCHANGED <<inputs, nir, red, output, threads, chan, row, sent, nsent, writes, reordered, clipped, old_progress, emitted>>

Main ==
    \/ LoadNir
    \/ LoadRed
    \/ Validate
    \/ InitOutput
    \/ Spawn
    \/ SpawnDone
    \/ CollectorRecv
    \/ CollectDone
    \/ Clip
    \/ Metadata
    \/ Write

Worker(tid) ==
    \/ WorkerRow(tid)
    \/ WorkerExit(tid)

Next ==
    \/ Main
    \/ \E tid \in Tids : Worker(tid)
    \/ \E tid \in Tids : WorkerPanic(tid)

Spec == Init /\ [][Next]_vars

\* The runs in which no worker dies, under a scheduler that does not stop
\* while some thread can take a step.  Every step moves a thread forward
\* and no thread loops without bound, so this weak fairness of the whole
\* step relation already lets every thread run to its end or to a block.
NextNoPanic ==
    \/ Main
    \/ \E tid \in Tids : Worker(tid)

FairSpec ==
    /\ Init
    /\ [][NextNoPanic]_vars
    /\ WF_vars(NextNoPanic)

(***************************************************************************)
(* Properties.                                                             *)
(***************************************************************************)
NoFailure == \A t \in Tids : threads[t].state # "panicked"

\* The collection loop has ended.
Collected ==
    \/ pc \in {"Clip", "Metadata", "Write", "Persisted"}
    \/ pc = "Failed" /\ err = "OutputWriteError"

\* The Evaluator's result for cell (r, c), from the two input files alone.
Expected(r, c) ==
    EvalPixel(nirFile.data[r][c], redFile.data[r][c],
              nirFile.nodata, redFile.nodata, correction_factor)

\* C1: once the Collector has finished, every output row r holds the
\* Evaluator's result for row r of the two bands, whatever the worker count
\* and the order in which the messages arrived.
C1_OutputDeterminism ==
    pc = "Clip" =>
        \A r \in 0..(nirFile.rows - 1) : \A c \in 0..(nirFile.columns - 1) :
            output.data[r][c] = Expected(r, c)

\* C1 witness: the Collector has finished a run of several workers in which
\* messages arrived out of row order.
C1_Witness ==
    /\ pc = "Clip"
    /\ reordered
    /\ num_procs >= 2
    /\ rows >= 3

\* C2: the Collector never writes a row twice, and when it has finished a
\* run without worker failure it has done exactly rows receives and written
\* every row of [0, rows) exactly once.
C2_ExactlyOncePerRow ==
    /\ \A r \in DOMAIN writes : writes[r] <= 1
    /\ (NoFailure /\ Collected) =>
          /\ row = rows
          /\ DOMAIN writes = 0..(rows - 1)
          /\ \A r \in 0..(rows - 1) : writes[r] = 1

\* C2 witness: a finished collection of at least three rows by two workers.
C2_Witness ==
    /\ Collected
    /\ NoFailure
    /\ rows >= 3
    /\ num_procs >= 2

\* The rows the partition gives to worker t.
Assigned(t) == {r \in 0..(rows - 1) : RowFilter(r, num_procs, t)}

\* The spawn loop has spawned all num_procs workers.
AllSpawned == Cardinality(Tids) = num_procs

\* C3: row r belongs to worker r mod W and to no other; the workers' row
\* sets are pairwise disjoint and cover [0, rows); a row is sent only by its
\* worker, never twice, and when every worker has returned every row has
\* been sent.
C3_StripedPartition ==
    (nir # NoRaster /\ red # NoRaster) =>
        /\ \A r \in 0..(rows - 1) :
              {t \in 0..(num_procs - 1) : r \in Assigned(t)} = {r % num_procs}
        /\ \A t1, t2 \in 0..(num_procs - 1) :
              t1 # t2 => Assigned(t1) \cap Assigned(t2) = {}
        /\ UNION {Assigned(t) : t \in 0..(num_procs - 1)} = 0..(rows - 1)
        /\ \A p \in sent : p[1] = p[2] % num_procs
        /\ nsent = Cardinality(sent)
        /\ Cardinality({p[2] : p \in sent}) = nsent
        /\ (AllSpawned /\ \A t \in Tids : threads[t].state = "done") =>
              {p[2] : p \in sent} = 0..(rows - 1)

\* C3 witness: two workers have returned after sending three rows or more.
C3_Witness ==
    /\ AllSpawned
    /\ num_procs >= 2
    /\ rows >= 3
    /\ \A t \in Tids : threads[t].state = "done"

\* The cells whose nir or red value is the band's nodata value.
NodataCells ==
    {p \in Cells(nirFile) :
        \/ nirFile.data[p[1]][p[2]] = nirFile.nodata
        \/ redFile.data[p[1]][p[2]] = redFile.nodata}

\* C4: a cell whose nir value or red value is nodata is nir's nodata value in
\* the assembled output, after clipping and in the file written, in both
\* modes.
C4_NodataPropagates ==
    /\ Collected =>
          \A p \in NodataCells : output.data[p[1]][p[2]] = nirFile.nodata
    /\ disk # NoRaster =>
          \A p \in NodataCells : disk.data[p[1]][p[2]] = nirFile.nodata

\* C4 witness: an adjusted-mode run has written its file, with a cell that
\* is nodata in the red band only and a cell that is nodata in the nir band
\* only.
C4_Witness ==
    /\ pc = "Persisted"
    /\ correction_factor = OsaviFactor
    /\ \E p \in Cells(nirFile) :
          /\ nirFile.data[p[1]][p[2]] # nirFile.nodata
          /\ redFile.data[p[1]][p[2]] = redFile.nodata
    /\ \E p \in Cells(nirFile) :
          /\ nirFile.data[p[1]][p[2]] = nirFile.nodata
          /\ redFile.data[p[1]][p[2]] # redFile.nodata

\* C5: where neither input is nodata, the output is nir's nodata value if
\* z_nir + z_red + c = 0 and (z_nir - z_red) / (z_nir + z_red + c) otherwise.
C5_GuardIncludesFactor ==
    pc = "Clip" =>
        \A p \in Cells(nirFile) \ NodataCells :
            LET z1 == nirFile.data[p[1]][p[2]]
                z2 == redFile.data[p[1]][p[2]]
                den == F64Add(F64Add(z1, z2), correction_factor)
            IN  output.data[p[1]][p[2]] =
                    IF den = Zero THEN nirFile.nodata
                    ELSE F64Div(F64Sub(z1, z2), den)

\* The two input files differ in row count or in column count.
Mismatch == nirFile.rows # redFile.rows \/ nirFile.columns # redFile.columns

\* C6: in a run on grids of different shapes no worker is spawned, no
\* channel and no output raster is created and nothing is written, the run
\* never gets past validation, and once both grids are loaded it can only
\* fail, with the dimension-mismatch error.
C6_MismatchRejected ==
    Mismatch =>
        /\ threads = <<>>
        /\ output = NoRaster
        /\ disk = NoRaster
        /\ ~tx /\ ~rx
        /\ pc \in {"LoadNir", "LoadRed", "Validate", "Failed"}
        /\ (pc = "Failed" /\ red # NoRaster) => err = "DimensionMismatch"

\* C6 witness: a run on grids with equal row counts and different column
\* counts has failed with the dimension-mismatch error.
C6_Witness ==
    /\ Mismatch
    /\ nirFile.rows = redFile.rows
    /\ pc = "Failed"
    /\ err = "DimensionMismatch"

\* Every row of the output raster has been written by the Collector.
FullyPopulated ==
    /\ output # NoRaster
    /\ row = rows
    /\ \A r \in 0..(rows - 1) : writes[r] >= 1

\* C7: the Clipper, the Metadata Writer and the write step are reached, the
\* output carries metadata, and the output file exists, only when the
\* Collector has written every row; the file written is the full raster.
C7_NoPartialOutput ==
    /\ Collected => FullyPopulated
    /\ (output # NoRaster /\ output.metadata # <<>>) => FullyPopulated
    /\ disk # NoRaster => (FullyPopulated /\ disk = output)

\* C7 witness: the output file of a grid of three rows or more is written.
C7_Witness ==
    /\ pc = "Persisted"
    /\ disk # NoRaster
    /\ rows >= 3
    /\ num_procs >= 2

\* Some worker has stopped with assigned rows it never sent.
Stalled == \E t \in Tids : threads[t].state = "panicked" /\ Remaining(t) # {}

\* C8: once a worker has stopped without sending all of its rows, the run
\* is in its spawn loop or in its collection loop with fewer than rows
\* results received, now and ever after: it never panics on a closed
\* channel, never finishes collecting and never reaches Persisted or Failed.
C8_StallBlocksForever ==
    /\ Stalled =>
          /\ pc \in {"Spawn", "Collect"}
          /\ row < rows
          /\ disk = NoRaster
          /\ err = "none"
    /\ (Stalled /\ pc = "Collect" /\ chan = <<>>) =>
          ~(ENABLED CollectorRecv \/ ENABLED CollectDone)

\* C8 witness: every worker has stopped, one of them with rows unsent, the
\* queue is empty and the Collector is blocked in recv.
C8_Witness ==
    /\ Stalled
    /\ pc = "Collect"
    /\ chan = <<>>
    /\ row >= 1
    /\ num_procs >= 2
    /\ \A t \in Tids : threads[t].state # "running"

\* The run has ended.
Terminal == pc \in {"Persisted", "Failed"}

\* C9: with fair scheduling and no worker failure the collection loop ends
\* only after rows receives, every run that starts collecting finishes
\* collecting, and every run reaches Persisted or Failed.
C9_CollectorTerminates ==
    /\ [](Collected => row = rows)
    /\ (pc = "Collect") ~> (pc = "Clip")
    /\ <>Terminal

\* C9 witness: a run with more workers than rows has written its file.
C9_Witness ==
    /\ pc = "Persisted"
    /\ rows >= 1
    /\ rows < num_procs

\* C10: a worker step leaves the output raster unchanged; while workers and
\* Collector run, the output raster changes only in a Collector iteration,
\* and the input rasters and files do not change.
C10_OnlyCollectorWrites ==
    [][/\ (\E tid \in Tids : Worker(tid) \/ WorkerPanic(tid)) => output' = output
       /\ pc \in {"Spawn", "Collect"} =>
             /\ nir' = nir /\ red' = red
             /\ nirFile' = nirFile /\ redFile' = redFile
             /\ output' # output => CollectorRecv]_vars

\* C10 witness: workers have sent rows whose values differ from the fill of
\* the output raster, and the output raster is still as it was created.
C10_Witness ==
    /\ pc \in {"Spawn", "Collect"}
    /\ nsent >= 2
    /\ output = InitializeUsingFile(nir)
    /\ \E i \in 1..Len(chan) : chan[i][2] # output.data[chan[i][1]]


\* C11: a worker with rows left can always send its next row, whatever the
\* number of results already queued and wherever the Collector is: the send
\* never waits for room in the channel, for the Collector or for another
\* worker.
C11_SendNeverBlocks ==
    \A t \in Tids :
        (threads[t].state = "running" /\ Remaining(t) # {}) =>
            ENABLED (WorkerRow(t) /\ nsent' = nsent + 1 /\ Len(chan') = Len(chan) + 1)

\* C11 witness: every worker has sent all of its rows and returned, all
\* rows results are queued and the Collector has received none.
C11_Witness ==
    /\ rows >= 3
    /\ num_procs >= 2
    /\ AllSpawned
    /\ \A t \in Tids : threads[t].state = "done"
    /\ Len(chan) = rows
    /\ row = 0
    /\ \A r \in 0..(rows - 1) : writes[r] = 0

\* C12: a run whose nir or red load failed has returned that error with
\* nothing done: no worker, no channel, no output raster, no file written.
C12_LoadFailureNoEffects ==
    err = "InputError" =>
        /\ pc = "Failed"
        /\ threads = <<>>
        /\ chan = <<>>
        /\ ~tx /\ ~rx
        /\ output = NoRaster
        /\ disk = NoRaster
        /\ red = NoRaster
        /\ ~ENABLED Next

\* C12 witness: the red load has failed after the nir load succeeded.
C12_Witness ==
    /\ err = "InputError"
    /\ pc = "Failed"
    /\ nir # NoRaster


\* The clip stage is behind the run.
PastClip ==
    \/ pc \in {"Metadata", "Write", "Persisted"}
    \/ pc = "Failed" /\ err = "OutputWriteError"

\* C13: clip_amount is the --clip value as given, negative values included;
\* the Clipper is called if and only if that value is positive, and for a
\* value <= 0 the raster after the clip stage and the file written hold the
\* cells the Collector assembled.
C13_ClipOnlyWhenPositive ==
    /\ clip_amount = clip_arg
    /\ clipped => PastClip
    /\ PastClip => (clipped <=> clip_arg > 0)
    /\ (PastClip /\ clip_arg <= 0) =>
          \A p \in Cells(nirFile) : output.data[p[1]][p[2]] = Expected(p[1], p[2])
    /\ (disk # NoRaster /\ clip_arg <= 0) =>
          \A p \in Cells(nirFile) : disk.data[p[1]][p[2]] = Expected(p[1], p[2])

\* C13 witness: a run with a negative --clip value has written a file with
\* a cell that is not nodata.
C13_Witness ==
    /\ pc = "Persisted"
    /\ clip_arg < 0
    /\ ~clipped
    /\ \E p \in Cells(nirFile) : disk.data[p[1]][p[2]] # nirFile.nodata


\* C14: the percentages printed lie in 0..100, each differs from (and is
\* not below) the one printed before it, there are at most 101 of them, and
\* none is printed with progress reporting off.
C14_ProgressInRange ==
    /\ \A i \in 1..Len(emitted) : emitted[i] \in 0..100
    /\ \A i \in 1..(Len(emitted) - 1) : emitted[i] < emitted[i + 1]
    /\ Len(emitted) <= 101
    /\ ~verbose => emitted = <<>>


\* C15: a step into Failed is a load that returns its error, the validation
\* of two grids of different shapes, or the write of the output; with a
\* worker spawned it is the write alone, with every row collected.  From
\* Persisted and from Failed the run takes no step: no worker is spawned,
\* no row, clip or file is written.
C15_FailedOnlyFromLoadValidateWrite ==
    [][ /\ (pc' = "Failed" /\ pc # "Failed") =>
              \/ pc \in {"LoadNir", "LoadRed"} /\ err' = "InputError" /\ threads = <<>>
              \/ pc = "Validate" /\ Mismatch /\ err' = "DimensionMismatch" /\ threads = <<>>
              \/ pc = "Write" /\ err' = "OutputWriteError" /\ AllSpawned /\ FullyPopulated
        /\ (pc' = "Failed" /\ pc # "Failed" /\ threads # <<>>) =>
              pc = "Write" /\ row = rows /\ \A r \in 0..(rows - 1) : writes[r] = 1
        /\ pc \in {"Persisted", "Failed"} =>
              /\ UNCHANGED <<pc, err, output, disk, writes, row, clipped, chan>>
              /\ DOMAIN threads' = DOMAIN threads
              /\ ~ENABLED Main
      ]_vars

\* C15 witness: the write has failed with both workers spawned.
C15_Witness ==
    /\ pc = "Failed"
    /\ err = "OutputWriteError"
    /\ num_procs >= 2
    /\ AllSpawned
    /\ rows >= 2


\* Some worker still has an assigned row it has not sent.
Computing == \E t \in Tids : threads[t].state = "running" /\ Remaining(t) # {}

\* C16: the Collector does not wait for the workers, nor they for it: in
\* its loop it takes a queued row and writes it while a worker still has
\* rows to send, and a worker with rows to send sends its next row though
\* rows have been written already.
C16_CollectWhileComputing ==
    /\ (pc = "Collect" /\ row < rows /\ chan # <<>> /\ Computing) =>
          ENABLED (CollectorRecv /\ writes'[Head(chan)[1]] = 1 /\ threads' = threads)
    /\ \A t \in Tids :
          (pc = "Collect" /\ row > 0 /\ threads[t].state = "running" /\ Remaining(t) # {}) =>
              ENABLED (WorkerRow(t) /\ nsent' = nsent + 1 /\ writes' = writes)

\* C16 witness: on a grid of two rows one row is written while a worker
\* has not sent the other.
C16_Witness ==
    /\ rows = 2
    /\ pc = "Collect"
    /\ \E r \in 0..(rows - 1) : writes[r] >= 1
    /\ Computing


\* C17: with --osavi, where neither input is nodata, the assembled output
\* is nir's nodata value if z_nir + z_red = 0 and the quotient
\* (z_nir - z_red) / (z_nir + z_red + 0.16) otherwise; where
\* z_nir + z_red + 0.16 = 0 that quotient is a division by zero and the cell
\* is infinite or NaN, not nodata.
C17_GuardWithoutFactor ==
    (pc = "Clip" /\ correction_factor = OsaviFactor) =>
        \A p \in Cells(nirFile) \ NodataCells :
            LET z1 == nirFile.data[p[1]][p[2]]
                z2 == redFile.data[p[1]][p[2]]
                sum == F64Add(z1, z2)
                den == F64Add(sum, OsaviFactor)
                out == output.data[p[1]][p[2]]
            IN  /\ sum = Zero => out = nirFile.nodata
                /\ sum # Zero => out = F64Div(F64Sub(z1, z2), den)
                /\ (sum # Zero /\ den = Zero) => out \in {PosInf, NegInf, NaN}

\* C17 witness: an --osavi run has assembled a grid with a cell whose sum
\* is -0.16; the cell holds minus infinity.
C17_Witness ==
    /\ pc = "Clip"
    /\ correction_factor = OsaviFactor
    /\ \E p \in Cells(nirFile) \ NodataCells :
          /\ F64Add(nirFile.data[p[1]][p[2]], redFile.data[p[1]][p[2]]) = F64(-16, 100)
          /\ output.data[p[1]][p[2]] = NegInf


\* Row r has not been sent by its worker, the worker r mod num_procs.
Unsent(r) == r \in Remaining(r % num_procs)

\* The positions of the channel's queue that carry row r.
Buffered(r) == {i \in 1..Len(chan) : chan[i][1] = r}

\* C18: with every worker spawned and none dead, each row is in exactly one
\* of three places: unsent at its worker, queued in the channel, or written
\* to the output; the three counts add up to rows, and the queue never
\* holds more than rows messages nor two messages for one row.
C18_RowConservation ==
    (AllSpawned /\ NoFailure) =>
        /\ \A r \in 0..(rows - 1) :
              /\ (IF Unsent(r) THEN 1 ELSE 0) + Cardinality(Buffered(r)) + writes[r] = 1
              /\ Cardinality(Buffered(r)) <= 1
        /\ Cardinality({r \in 0..(rows - 1) : Unsent(r)}) + Len(chan) + row = rows
        /\ row = Cardinality({r \in 0..(rows - 1) : writes[r] = 1})
        /\ Len(chan) <= rows

\* C18 witness: of three rows one is unsent, one is queued and one is
\* written.
C18_Witness ==
    /\ AllSpawned
    /\ NoFailure
    /\ rows = 3
    /\ \E r1, r2, r3 \in 0..(rows - 1) :
          /\ Unsent(r1)
          /\ Buffered(r2) # {}
          /\ writes[r3] = 1


\* C19: in the runs in which no worker dies no send and no recv fails: no
\* thread panics on its send and the run does not panic on its recv.  The
\* run holds tx and rx throughout the spawn loop and the collection loop, a
\* worker with a row to send finds the Receiver alive, and the Receiver is
\* gone only when all rows have been sent and received.
C19_ChannelNeverFails ==
    /\ NoFailure
    /\ pc # "Panicked"
    /\ pc \in {"Spawn", "Collect"} => tx /\ rx
    /\ (pc = "Collect" /\ row < rows /\ chan = <<>>) => SendersAlive
    /\ \A t \in Tids : (threads[t].state = "running" /\ Remaining(t) # {}) => rx
    /\ (~rx /\ threads # <<>>) =>
          /\ row = rows
          /\ nsent = rows
          /\ chan = <<>>
          /\ \A t \in Tids : Remaining(t) = {}

\* C19 witness: the run has ended and dropped the Receiver with all rows
\* received, while a worker's closure has not yet returned.
C19_Witness ==
    /\ pc = "Persisted"
    /\ ~rx
    /\ rows >= 2
    /\ nsent = rows
    /\ \E t \in Tids : threads[t].state = "running"


\* C20: the run goes on from its collection loop without waiting for the
\* threads, and at that point and ever after the queue is empty and every
\* worker has sent all of its rows: nothing is sent, queued or received
\* during the clip, the metadata and the write.
C20_NothingInFlightAfterCollect ==
    /\ [](Collected =>
              /\ chan = <<>>
              /\ AllSpawned
              /\ nsent = rows
              /\ \A t \in Tids : Remaining(t) = {} /\ Assigned(t) = {r \in 0..(rows - 1) : <<t, r>> \in sent})
    /\ [][Collected => UNCHANGED <<chan, nsent, sent, row, writes>>]_vars

\* C20 witness: the run is past its collection loop, in the clip stage or
\* at its end, while a thread has not returned.
C20_Witness ==
    /\ pc \in {"Clip", "Persisted"}
    /\ rows >= 2
    /\ num_procs >= 2
    /\ chan = <<>>
    /\ \E t \in Tids : threads[t].state = "running" /\ Assigned(t) # {}


\* Rows r1 < r2 of one worker.
SameWorker(r1, r2) ==
    /\ r1 \in 0..(rows - 1)
    /\ r2 \in 0..(rows - 1)
    /\ r1 < r2
    /\ r1 % num_procs = r2 % num_procs

\* C21: for rows r1 < r2 of one worker, r2 is sent only after r1, a queued
\* r2 has r1 before it in the queue unless r1 is written, and the Collector
\* writes r2 only when r1 is written: the rows of a worker are written in
\* the order it sent them.
C21_PerWorkerFifo ==
    /\ [](threads # <<>> =>
            \A r1, r2 \in 0..(rows - 1) :
                SameWorker(r1, r2) =>
                    /\ <<r2 % num_procs, r2>> \in sent => <<r1 % num_procs, r1>> \in sent
                    /\ \A j \in Buffered(r2) :
                          writes[r1] = 1 \/ \E i \in Buffered(r1) : i < j
                    /\ writes[r2] >= 1 => writes[r1] = 1)
    /\ [][threads # <<>> =>
            \A r1, r2 \in 0..(rows - 1) :
                (SameWorker(r1, r2) /\ writes'[r2] > writes[r2]) =>
                    writes[r1] = 1 /\ writes'[r1] = 1
       ]_vars

\* C21 witness: on three rows and two workers the rows 0 and 2 of worker 0
\* are both written, and a row was written ahead of a row of the other
\* worker with a lower index.
C21_Witness ==
    /\ rows = 3
    /\ num_procs = 2
    /\ AllSpawned
    /\ writes[0] = 1
    /\ writes[2] = 1
    /\ writes[1] = 0
    /\ reordered

====
